---- MODULE Spec2Model ----
(***************************************************************************)
(* TGMA (Chronos) memory engine, src/tgma_memory_engine.py.                *)
(*                                                                         *)
(* The two SQLite tables (chat_logs, summaries), the orchestrator          *)
(* think_and_reply, the investigator internal_memory_recall, the historian *)
(* try_summarize / run_historian_ai and the main loop, one step per await. *)
(*                                                                         *)
(* Environment assumptions of the model:                                   *)
(*   - the reasoning step (fake_llm, "to be replaced by a real API") is a  *)
(*     black box: any text of LLMTexts, or an exception;                   *)
(*   - time.time() never goes backwards; the local time zone is UTC;       *)
(*   - the database file outlives the process: Init is a database left by  *)
(*     earlier runs of the same program (PriorDBs), and a crashed process  *)
(*     can be started again (Restart);                                     *)
(*   - SQL leaves the order of rows with equal ORDER BY keys open: a query *)
(*     gives such rows in id order or in reverse id order (TieBreaks);     *)
(*   - a local of a coroutine is reset once the code no longer reads it.   *)
(***************************************************************************)
EXTENDS Integers, Sequences, FiniteSets, TLC

\* ------------------------------------------------------------ configuration

DEFAULT_USER == "Standard_User"

SUMMARIZE_THRESHOLD == 30

\* limit=30, the default of get_recent_history and get_formatted_history
HISTORY_LIMIT == 30

\* e = s + 86400 in get_logs_by_date
DAY_SECONDS == 86400

Users == {DEFAULT_USER, "Guest"}

\* ------------------------------------------------------------------ bounds

\* calls of think_and_reply started in one behaviour (all users together)
MaxTurns == 2

\* seconds the clock may advance past NowInit
MaxTicks == 1

\* ------------------------------------------------------------------- texts
\* A text is kept in the state by its literal; Chars gives its characters,
\* which is what re.search, strptime and the `in` test read.

UserInputs == {"hello"}

LLMTexts ==
  { "ok",
    "[RECALL|2026-02-26|cats]",
    "[RECALL|2026-02-28|cats]",
    "[RECALL|2026-02-30|cats]",
    "[RECALL|26-02-2026|cats]",
    "[RECALL 2026-02-26|cats]",
    "[recall|2026-02-26|cats]",
    "RECALL|2026-02-26|cats",
    "[NO_EVENT]" }

\* What the code does with the reasoning step's text depends on the call:
\* think_and_reply searches it for a directive, run_historian_ai tests it for
\* "[NO_EVENT]" and stores it, internal_memory_recall only passes it on.
\* The last two calls draw from the texts that differ for that use.
HistorianTexts == {"ok", "[NO_EVENT]", "[RECALL|2026-02-26|cats]"}

InvestigatorTexts == {"ok", "[RECALL|2026-02-26|cats]"}

\* the fixed reply of internal_memory_recall when the day has no rows
NO_RECORD == "(no raw record found for that day)"

Chars(t) ==
  CASE t = "hello" -> <<"h", "e", "l", "l", "o">>
    [] t = "ok" -> <<"o", "k">>
    [] t = "[RECALL|2026-02-26|cats]" ->
         <<"[", "R", "E", "C", "A", "L", "L", "|", "2", "0", "2", "6", "-",
           "0", "2", "-", "2", "6", "|", "c", "a", "t", "s", "]">>
    [] t = "[RECALL|2026-02-28|cats]" ->
         <<"[", "R", "E", "C", "A", "L", "L", "|", "2", "0", "2", "6", "-",
           "0", "2", "-", "2", "8", "|", "c", "a", "t", "s", "]">>
    [] t = "[RECALL|2026-02-30|cats]" ->
         <<"[", "R", "E", "C", "A", "L", "L", "|", "2", "0", "2", "6", "-",
           "0", "2", "-", "3", "0", "|", "c", "a", "t", "s", "]">>
    [] t = "[RECALL|26-02-2026|cats]" ->
         <<"[", "R", "E", "C", "A", "L", "L", "|", "2", "6", "-", "0", "2",
           "-", "2", "0", "2", "6", "|", "c", "a", "t", "s", "]">>
    [] t = "[RECALL 2026-02-26|cats]" ->
         <<"[", "R", "E", "C", "A", "L", "L", " ", "2", "0", "2", "6", "-",
           "0", "2", "-", "2", "6", "|", "c", "a", "t", "s", "]">>
    [] t = "[recall|2026-02-26|cats]" ->
         <<"[", "r", "e", "c", "a", "l", "l", "|", "2", "0", "2", "6", "-",
           "0", "2", "-", "2", "6", "|", "c", "a", "t", "s", "]">>
    [] t = "RECALL|2026-02-26|cats" ->
         <<"R", "E", "C", "A", "L", "L", "|", "2", "0", "2", "6", "-", "0",
           "2", "-", "2", "6", "|", "c", "a", "t", "s">>
    [] t = "[NO_EVENT]" ->
         <<"[", "N", "O", "_", "E", "V", "E", "N", "T", "]">>
    [] OTHER -> <<"(", "?", ")">>

\* sub in text, on character sequences
Contains(sub, s) ==
  \E i \in 1..(Len(s) - Len(sub) + 1) : SubSeq(s, i, i + Len(sub) - 1) = sub

\* fault variant: the test for "[NO_EVENT]" is left out
HasNoEvent_Never(t) == FALSE

\* "[NO_EVENT]" not in summary
HasNoEvent(t) == Contains(<<"[", "N", "O", "_", "E", "V", "E", "N", "T", "]">>, Chars(t))

\* ---------------------------------------------------------- recall directive

Digit == {"0", "1", "2", "3", "4", "5", "6", "7", "8", "9"}

AllDigits(s) == \A k \in 1..Len(s) : s[k] \in Digit

\* fault variant: the date group as [\d-]{10}: any ten digits and dashes
DirectiveHeadAt_LooseDate(s, i) ==
  /\ i + 18 <= Len(s)
  /\ SubSeq(s, i, i + 7) = <<"[", "R", "E", "C", "A", "L", "L", "|">>
  /\ \A k \in (i + 8)..(i + 17) : s[k] \in Digit \cup {"-"}
  /\ s[i + 18] = "|"

\* \[RECALL\|(\d{4}-\d{2}-\d{2})\|  anchored at position i of s
DirectiveHeadAt(s, i) ==
  /\ i + 18 <= Len(s)
  /\ SubSeq(s, i, i + 7) = <<"[", "R", "E", "C", "A", "L", "L", "|">>
  /\ AllDigits(SubSeq(s, i + 8, i + 11))
  /\ s[i + 12] = "-"
  /\ AllDigits(SubSeq(s, i + 13, i + 14))
  /\ s[i + 15] = "-"
  /\ AllDigits(SubSeq(s, i + 16, i + 17))
  /\ s[i + 18] = "|"

\* (.*?)\] after the head at i: the lazy group ends at the first "]", and "."
\* matches no newline, so the first of "]" and newline must exist and be "]"
DirectiveEnd(s, i) ==
  LET stops == {j \in (i + 19)..Len(s) : s[j] \in {"]", "\n"}}
  IN  IF stops = {} THEN 0
      ELSE LET j == CHOOSE x \in stops : \A y \in stops : x <= y
           IN  IF s[j] = "]" THEN j ELSE 0

DirectiveAt(s, i) == DirectiveHeadAt(s, i) /\ DirectiveEnd(s, i) # 0

NoMatch == [found |-> FALSE, date |-> <<>>, query |-> <<>>]

\* re.search(r"\[RECALL\|(\d{4}-\d{2}-\d{2})\|(.*?)\]", reply): the leftmost
\* match, with its two groups
SearchDirective(s) ==
  LET starts == {i \in 1..Len(s) : DirectiveAt(s, i)}
  IN  IF starts = {} THEN NoMatch
      ELSE LET i == CHOOSE x \in starts : \A y \in starts : x <= y
           IN  [found |-> TRUE,
                date  |-> SubSeq(s, i + 8, i + 17),
                query |-> SubSeq(s, i + 19, DirectiveEnd(s, i) - 1)]

\* ------------------------------------------------------------ calendar, time

DigitVal(c) ==
  CASE c = "0" -> 0 [] c = "1" -> 1 [] c = "2" -> 2 [] c = "3" -> 3
    [] c = "4" -> 4 [] c = "5" -> 5 [] c = "6" -> 6 [] c = "7" -> 7
    [] c = "8" -> 8 [] c = "9" -> 9

RECURSIVE Number(_)
Number(s) ==
  IF s = <<>> THEN 0
  ELSE 10 * Number(SubSeq(s, 1, Len(s) - 1)) + DigitVal(s[Len(s)])

IsLeap(y) == (y % 4 = 0 /\ y % 100 # 0) \/ y % 400 = 0

DaysInMonth(y, m) ==
  IF m = 2 THEN (IF IsLeap(y) THEN 29 ELSE 28)
  ELSE IF m \in {4, 6, 9, 11} THEN 30 ELSE 31

\* days since 1970-01-01 of a calendar date (proleptic Gregorian)
DaysFromCivil(y, m, d) ==
  LET yy  == IF m <= 2 THEN y - 1 ELSE y
      era == yy \div 400
      yoe == yy - era * 400
      mp  == IF m > 2 THEN m - 3 ELSE m + 9
      doy == (153 * mp + 2) \div 5 + d - 1
      doe == yoe * 365 + yoe \div 4 - yoe \div 100 + doy
  IN  era * 146097 + doe - 719468

\* the calendar date of a day number
CivilFromDays(z) ==
  LET zz  == z + 719468
      era == zz \div 146097
      doe == zz - era * 146097
      yoe == (doe - doe \div 1460 + doe \div 36524 - doe \div 146096) \div 365
      doy == doe - (365 * yoe + yoe \div 4 - yoe \div 100)
      mp  == (5 * doy + 2) \div 153
      d   == doy - (153 * mp + 2) \div 5 + 1
      m   == IF mp < 10 THEN mp + 3 ELSE mp - 9
      y   == yoe + era * 400 + (IF m <= 2 THEN 1 ELSE 0)
  IN  [y |-> y, m |-> m, d |-> d]

\* datetime.strptime(date_str, "%Y-%m-%d") on a string of the shape the
\* directive's first group has: ok = FALSE is the ValueError
Strptime(ds) ==
  LET y == Number(SubSeq(ds, 1, 4))
      m == Number(SubSeq(ds, 6, 7))
      d == Number(SubSeq(ds, 9, 10))
  IN  [ok |-> y >= 1 /\ m \in 1..12 /\ d >= 1 /\ d <= DaysInMonth(y, m),
       y |-> y, m |-> m, d |-> d]

\* int(d.timestamp()) of a midnight
DayStart(y, m, d) == DaysFromCivil(y, m, d) * DAY_SECONDS

\* datetime.fromtimestamp(ts).date()
DateOf(ts) == CivilFromDays(ts \div DAY_SECONDS)

\* strftime("%H:%M") of datetime.fromtimestamp(ts)
HourMinute(ts) == <<(ts % DAY_SECONDS) \div 3600, (ts % 3600) \div 60>>

\* the last second of 2026-02-26: the next second is another calendar day
NowInit == DayStart(2026, 2, 27) - 1

\* ------------------------------------------------------------------- state

VARIABLES
  chat_logs,    \* table chat_logs: the rows in id order (id = position)
  summaries,    \* table summaries: rows [date, content], date the primary key
  now,          \* the clock value of the latest clock read
  pc,           \* per user: the await the user's main loop is suspended at
  user_input,   \* think_and_reply: user_input
  messages,     \* think_and_reply: messages
  reply,        \* think_and_reply: reply
  directive,    \* think_and_reply: match (found, date, query)
  evidence,     \* think_and_reply: evidence
  recall_rows,  \* internal_memory_recall: logs (ids of the rows read)
  logs,         \* run_historian_ai: logs (ids of the batch, in the order read)
  date_str,     \* run_historian_ai: date_str
  summary,      \* run_historian_ai: summary
  error,        \* per user: the exception that ended the main loop
  turns,        \* calls of think_and_reply started in this behaviour
  trace,        \* per user: history variables the properties read
  done_ids,     \* ids that were in the batch of a compaction run that completed
  twice         \* some id was in the batch of two completed compaction runs

vars ==
  <<chat_logs, summaries, now, pc, user_input, messages, reply, directive,
    evidence, recall_rows, logs, date_str, summary, error, turns, trace,
    done_ids, twice>>

locals ==
  <<user_input, messages, reply, directive, evidence, recall_rows, logs,
    date_str, summary>>

stores == <<chat_logs, summaries>>

NoDate == [y |-> 0, m |-> 0, d |-> 0]

NoError == [kind |-> "", at |-> ""]

\* ------------------------------------------------------------------- AsyncDB

\* int(time.time()) / datetime.now(): the clock has not gone back since the
\* last read, and stays within the model's horizon
ClockReads == {t \in now..(now + 1) : t <= NowInit + MaxTicks}

\* fault variant: add_chat writes every row with role "user"
AddChat_RoleUser(rows, user_id, role, content, t) ==
  Append(rows, [user_id |-> user_id, role |-> "user", content |-> content,
                timestamp |-> t, summarized |-> 0])

\* add_chat: INSERT INTO chat_logs (user_id, role, content, timestamp);
\* summarized takes its DEFAULT 0 and id the next AUTOINCREMENT value
AddChat(rows, user_id, role, content, t) ==
  Append(rows, [user_id |-> user_id, role |-> role, content |-> content,
                timestamp |-> t, summarized |-> 0])

\* the two orders a query may give rows of equal timestamp
TieBreaks == {"rowid_asc", "rowid_desc"}

\* row i comes before row j under ORDER BY timestamp ASC
Before(i, j, tie) ==
  IF chat_logs[i].timestamp # chat_logs[j].timestamp
  THEN chat_logs[i].timestamp < chat_logs[j].timestamp
  ELSE IF tie = "rowid_asc" THEN i < j ELSE i > j

\* the ids 1..n in id order
IdSeq(n) == [k \in 1..n |-> k]

\* the ids of S, ORDER BY timestamp ASC
OrderAsc(S, tie) ==
  SortSeq(SelectSeq(IdSeq(Len(chat_logs)), LAMBDA i : i \in S),
          LAMBDA i, j : Before(i, j, tie))

Reverse(s) == [k \in 1..Len(s) |-> s[Len(s) + 1 - k]]

\* the ids of S, ORDER BY timestamp DESC (tie: the order of equal timestamps)
OrderDesc(S, tie) ==
  Reverse(OrderAsc(S, IF tie = "rowid_asc" THEN "rowid_desc" ELSE "rowid_asc"))

Ids(s) == {s[k] : k \in 1..Len(s)}

\* fault variant: get_unsummarized_logs without user_id=?
UnsummarizedLogs_AnyUser(user_id, tie) ==
  OrderAsc({i \in 1..Len(chat_logs) : chat_logs[i].summarized = 0}, tie)

\* fault variant: get_unsummarized_logs without AND summarized=0
UnsummarizedLogs_AnyFlag(user_id, tie) ==
  OrderAsc({i \in 1..Len(chat_logs) : chat_logs[i].user_id = user_id}, tie)

\* get_unsummarized_logs: WHERE user_id=? AND summarized=0 ORDER BY timestamp ASC
UnsummarizedLogs(user_id, tie) ==
  OrderAsc({i \in 1..Len(chat_logs) :
              /\ chat_logs[i].user_id = user_id
              /\ chat_logs[i].summarized = 0}, tie)

\* mark_summarized: UPDATE chat_logs SET summarized=1 WHERE id IN (ids)
MarkSummarized(rows, ids) ==
  [i \in 1..Len(rows) |->
     IF i \in ids THEN [rows[i] EXCEPT !.summarized = 1] ELSE rows[i]]

\* fault variant: INSERT with no key on date, the earlier row stays
SaveSummary_Accumulate(table, date, content) ==
  table \cup {[date |-> date, content |-> content]}

\* save_summary: INSERT OR REPLACE INTO summaries (date, content)
SaveSummary(table, date, content) ==
  {s \in table : s.date # date} \cup {[date |-> date, content |-> content]}

\* fault variant: WHERE timestamp>=s AND timestamp<=e
LogsByDate_ThroughMidnight(d, tie) ==
  LET s == DayStart(d.y, d.m, d.d)
      e == s + DAY_SECONDS
  IN  OrderAsc({i \in 1..Len(chat_logs) :
                  /\ chat_logs[i].timestamp >= s
                  /\ chat_logs[i].timestamp <= e}, tie)

\* get_logs_by_date, after strptime: WHERE timestamp>=s AND timestamp<e
\* ORDER BY timestamp ASC, rows of every user
LogsByDate(d, tie) ==
  LET s == DayStart(d.y, d.m, d.d)
      e == s + DAY_SECONDS
  IN  OrderAsc({i \in 1..Len(chat_logs) :
                  /\ chat_logs[i].timestamp >= s
                  /\ chat_logs[i].timestamp < e}, tie)

\* get_recent_history: WHERE user_id=? ORDER BY timestamp DESC LIMIT ?
RecentHistory(user_id, limit, tie) ==
  LET all == OrderDesc({i \in 1..Len(chat_logs) :
                          chat_logs[i].user_id = user_id}, tie)
  IN  SubSeq(all, 1, IF Len(all) < limit THEN Len(all) ELSE limit)

\* ------------------------------------------------------- formatted history

\* [HH:MM] for a row of today, [MM-DD HH:MM] for a row of another day
Tag(ts, tnow) ==
  IF DateOf(ts) = DateOf(tnow) THEN HourMinute(ts)
  ELSE <<DateOf(ts).m, DateOf(ts).d>> \o HourMinute(ts)

\* one entry of messages; kind tells how content was built:
\*   "tagged" f"[{tag}] {text}",  "plain" text,  "report" the system entry
\*   that wraps the evidence text
Msg(role, kind, tag, text) ==
  [role |-> role, kind |-> kind, tag |-> tag, text |-> text]

\* get_formatted_history: the rows of get_recent_history, reversed, tagged
FormattedHistory(user_id, limit, tie, tnow) ==
  LET rows == RecentHistory(user_id, limit, tie)
  IN  [k \in 1..Len(rows) |->
         LET r == chat_logs[rows[Len(rows) + 1 - k]]
         IN  Msg(r.role, "tagged", Tag(r.timestamp, tnow), r.content)]

\* ----------------------------------------------------------- initial state

\* the database left by earlier runs: one turn of Guest, then the turns of
\* DEFAULT_USER, compacted rows first, then open rows; the rows are one second
\* apart and the last one is a second before NowInit; gap is the time between
\* the compacted and the open rows (0: the same day, a day: the day before);
\* an odd number of open rows ends with the "user" row of a call that failed
PriorDBs ==
  { [compacted |-> 0, open |-> 0, gap |-> 0],
    [compacted |-> 0, open |-> SUMMARIZE_THRESHOLD - 1, gap |-> 0],
    [compacted |-> 0, open |-> SUMMARIZE_THRESHOLD, gap |-> 0],
    [compacted |-> SUMMARIZE_THRESHOLD, open |-> SUMMARIZE_THRESHOLD, gap |-> 0],
    [compacted |-> SUMMARIZE_THRESHOLD, open |-> SUMMARIZE_THRESHOLD,
     gap |-> DAY_SECONDS] }

\* rows of Guest at the head of a database that is not empty
GuestRows(p) == IF p.compacted + p.open = 0 THEN 0 ELSE 2

PriorRows(p) ==
  LET g == GuestRows(p)
      n == g + p.compacted + p.open
  IN  [i \in 1..n |->
         [user_id    |-> IF i <= g THEN "Guest" ELSE DEFAULT_USER,
          role       |-> IF i % 2 = 1 THEN "user" ELSE "assistant",
          content    |-> IF i % 2 = 1 THEN "hello" ELSE "ok",
          timestamp  |-> NowInit - n + i - 1
                           - (IF i <= g + p.compacted THEN p.gap ELSE 0),
          summarized |-> IF g < i /\ i <= g + p.compacted THEN 1 ELSE 0]]

PriorSummaries(p) ==
  IF p.compacted = 0 THEN {}
  ELSE {[date |-> DateOf(PriorRows(p)[GuestRows(p) + 1].timestamp),
         content |-> "ok"]}

NoBase == [logs |-> <<>>, sums |-> {}]

\* the per-turn part of trace
\* (hist_ids: the ids of the rows rendered into history, in rendered order)
TurnTrace ==
  [n_reason |-> 0, n_recall |-> 0, n_llm |-> 0, out1 |-> "", out2 |-> "",
   recall_arg |-> <<>>, ctx1 |-> <<>>, hist_ids |-> <<>>, response |-> "",
   base |-> NoBase]

\* wrote: the rows of table summaries that compaction runs of this user's
\* rows wrote, a later row of the same user for a date in place of the earlier
InitTrace(n) ==
  [started |-> n, returned |-> n, failed |-> 0,
   failed_batch |-> {}, reoffered |-> "none", wrote |-> {}, turn |-> TurnTrace]

Init ==
  \E p \in PriorDBs :
    /\ chat_logs = PriorRows(p)
    /\ summaries = PriorSummaries(p)
    /\ now = NowInit
    /\ pc = [u \in Users |-> IF u = DEFAULT_USER THEN "idle" ELSE "off"]
    /\ user_input = [u \in Users |-> ""]
    /\ messages = [u \in Users |-> <<>>]
    /\ reply = [u \in Users |-> ""]
    /\ directive = [u \in Users |-> NoMatch]
    /\ evidence = [u \in Users |-> ""]
    /\ recall_rows = [u \in Users |-> <<>>]
    /\ logs = [u \in Users |-> <<>>]
    /\ date_str = [u \in Users |-> NoDate]
    /\ summary = [u \in Users |-> ""]
    /\ error = [u \in Users |-> NoError]
    /\ turns = 0
    /\ trace = [u \in Users |->
                  IF u = DEFAULT_USER
                  THEN [InitTrace((p.compacted + p.open) \div 2)
                          EXCEPT !.started = (p.compacted + p.open + 1) \div 2,
                                 !.wrote = PriorSummaries(p)]
                  ELSE InitTrace(GuestRows(p) \div 2)]
    /\ done_ids = (GuestRows(p) + 1)..(GuestRows(p) + p.compacted)
    /\ twice = FALSE

\* the locals of user u as they are before a call
ResetLocals(u) ==
  /\ user_input' = [user_input EXCEPT ![u] = ""]
  /\ messages' = [messages EXCEPT ![u] = <<>>]
  /\ reply' = [reply EXCEPT ![u] = ""]
  /\ directive' = [directive EXCEPT ![u] = NoMatch]
  /\ evidence' = [evidence EXCEPT ![u] = ""]
  /\ recall_rows' = [recall_rows EXCEPT ![u] = <<>>]
  /\ logs' = [logs EXCEPT ![u] = <<>>]
  /\ date_str' = [date_str EXCEPT ![u] = NoDate]
  /\ summary' = [summary EXCEPT ![u] = ""]

\* ------------------------------------------------------------------ actions
\* One action per await of the main loop of user u (pc[u] = "off": no main
\* loop runs for u).  main awaits think_and_reply and then try_summarize
\* before it reads the next input.

OthersAtRest(u) == \A v \in Users \ {u} : pc[v] \in {"off", "idle", "crashed"}

\* think_and_reply(text, u) is called: await db.add_chat(user_id, "user", ...)
StartTurn(u, text) ==
  /\ pc[u] = "idle"
  /\ turns < MaxTurns
  /\ \E t \in ClockReads :
       /\ now' = t
       /\ chat_logs' = AddChat(chat_logs, u, "user", text, t)
  /\ user_input' = [user_input EXCEPT ![u] = text]
  /\ pc' = [pc EXCEPT ![u] = "history"]
  /\ turns' = turns + 1
  /\ trace' = [trace EXCEPT
                 ![u].started = @ + 1,
                 ![u].turn = [TurnTrace EXCEPT
                                !.base = [logs |-> chat_logs, sums |-> summaries]]]
  /\ UNCHANGED <<summaries, messages, reply, directive, evidence, recall_rows,
                 logs, date_str, summary, error, done_ids, twice>>

\* main: msg = input(); think_and_reply(msg), with no other call in progress
Start(u, text) == OthersAtRest(u) /\ StartTurn(u, text)

\* history = await get_formatted_history(user_id);
\* messages = history + [{"role": "user", "content": user_input}]
History(u) ==
  /\ pc[u] = "history"
  /\ \E tie \in TieBreaks, t \in ClockReads :
       /\ now' = t
       /\ messages' =
            [messages EXCEPT ![u] =
               FormattedHistory(u, HISTORY_LIMIT, tie, t)
                 \o <<Msg("user", "plain", <<>>, user_input[u])>>]
       /\ trace' = [trace EXCEPT
                      ![u].turn.hist_ids =
                        Reverse(RecentHistory(u, HISTORY_LIMIT, tie))]
  /\ pc' = [pc EXCEPT ![u] = "llm1"]
  /\ UNCHANGED <<chat_logs, summaries, user_input, reply, directive, evidence,
                 recall_rows, logs, date_str, summary, error, turns,
                 done_ids, twice>>

\* reply = await fake_llm(...) returns out; match = re.search(..., reply)
FirstReason(u, out) ==
  /\ pc[u] = "llm1"
  /\ reply' = [reply EXCEPT ![u] = out]
  /\ directive' = [directive EXCEPT ![u] = SearchDirective(Chars(out))]
  /\ IF SearchDirective(Chars(out)).found
     THEN /\ pc' = [pc EXCEPT ![u] = "recall"]
          /\ messages' = messages
     ELSE /\ pc' = [pc EXCEPT ![u] = "record"]
          /\ messages' = [messages EXCEPT ![u] = <<>>]
  /\ trace' = [trace EXCEPT
                 ![u].turn.n_reason = @ + 1,
                 ![u].turn.n_llm = @ + 1,
                 ![u].turn.out1 = out,
                 ![u].turn.hist_ids = <<>>,
                 ![u].turn.ctx1 =
                   IF SearchDirective(Chars(out)).found THEN messages[u] ELSE <<>>]
  /\ UNCHANGED <<chat_logs, summaries, now, user_input, evidence, recall_rows,
                 logs, date_str, summary, error, turns, done_ids, twice>>

\* fault variant: the first output is not appended to messages
WithEvidence_NoFirstOutput(msgs, first, ev) ==
  msgs \o <<Msg("system", "report", <<>>, ev)>>

\* the two entries think_and_reply appends once the evidence is there
WithEvidence(msgs, first, ev) ==
  msgs \o <<Msg("assistant", "plain", <<>>, first),
            Msg("system", "report", <<>>, ev)>>

\* fault variant: the prompt is built and sent also for an empty day
NoLogs_Never(rows) == FALSE

\* internal_memory_recall: if not logs
NoLogs(rows) == rows = <<>>

\* evidence = await internal_memory_recall(date, query), up to its first
\* await: get_logs_by_date raises ValueError, or returns the rows of the day;
\* with no rows the fixed text is the evidence
Recall(u) ==
  /\ pc[u] = "recall"
  /\ trace' = [trace EXCEPT
                 ![u].turn.n_recall = @ + 1,
                 ![u].turn.recall_arg = <<directive[u].date, directive[u].query>>]
  /\ LET d == Strptime(directive[u].date)
     IN  IF ~d.ok
         THEN /\ pc' = [pc EXCEPT ![u] = "crashed"]
              /\ error' = [error EXCEPT ![u] =
                             [kind |-> "ValueError", at |-> "think_and_reply"]]
              /\ messages' = [messages EXCEPT ![u] = <<>>]
              /\ UNCHANGED <<recall_rows, evidence>>
         ELSE \E tie \in TieBreaks :
                LET rows == LogsByDate(d, tie)
                IN  /\ recall_rows' = [recall_rows EXCEPT ![u] = rows]
                    /\ error' = error
                    /\ IF NoLogs(rows)
                       THEN /\ evidence' = [evidence EXCEPT ![u] = NO_RECORD]
                            /\ messages' =
                                 [messages EXCEPT ![u] =
                                    WithEvidence(@, reply[u], NO_RECORD)]
                            /\ pc' = [pc EXCEPT ![u] = "llm2"]
                       ELSE /\ pc' = [pc EXCEPT ![u] = "recall_llm"]
                            /\ UNCHANGED <<evidence, messages>>
  /\ UNCHANGED <<chat_logs, summaries, now, user_input, reply, directive, logs,
                 date_str, summary, turns, done_ids, twice>>

\* internal_memory_recall: return await fake_llm(prompt)
RecallReason(u, out) ==
  /\ pc[u] = "recall_llm"
  /\ evidence' = [evidence EXCEPT ![u] = out]
  /\ messages' = [messages EXCEPT ![u] = WithEvidence(@, reply[u], out)]
  /\ pc' = [pc EXCEPT ![u] = "llm2"]
  /\ trace' = [trace EXCEPT ![u].turn.n_llm = @ + 1]
  /\ UNCHANGED <<chat_logs, summaries, now, user_input, reply, directive,
                 recall_rows, logs, date_str, summary, error, turns, done_ids,
                 twice>>

\* reply = await fake_llm(...), the second time
SecondReason(u, out) ==
  /\ pc[u] = "llm2"
  /\ reply' = [reply EXCEPT ![u] = out]
  /\ pc' = [pc EXCEPT ![u] = "record"]
  /\ messages' = [messages EXCEPT ![u] = <<>>]
  /\ evidence' = [evidence EXCEPT ![u] = ""]
  /\ recall_rows' = [recall_rows EXCEPT ![u] = <<>>]
  /\ trace' = [trace EXCEPT ![u].turn.n_reason = @ + 1,
                            ![u].turn.n_llm = @ + 1,
                            ![u].turn.out2 = out,
                            ![u].turn.ctx1 = <<>>]
  /\ UNCHANGED <<chat_logs, summaries, now, user_input, directive, logs,
                 date_str, summary, error, turns, done_ids, twice>>

\* await db.add_chat(user_id, "assistant", reply); return reply;
\* main: print(response)
Record(u) ==
  /\ pc[u] = "record"
  /\ \E t \in ClockReads :
       /\ now' = t
       /\ chat_logs' = AddChat(chat_logs, u, "assistant", reply[u], t)
  /\ pc' = [pc EXCEPT ![u] = "summarize"]
  /\ trace' = [trace EXCEPT ![u].returned = @ + 1,
                            ![u].turn.response = reply[u]]
  /\ UNCHANGED <<summaries, locals, error, turns, done_ids, twice>>

\* fault variant: logs_to_process = logs[:-3]
AllButLastTwo_Three(rows) == SubSeq(rows, 1, Len(rows) - 3)

\* fault variant: logs_to_process = logs
AllButLastTwo_All(rows) == rows

\* logs_to_process = logs[:-2]
AllButLastTwo(rows) == SubSeq(rows, 1, Len(rows) - 2)

\* fault variant: if len(logs) >= SUMMARIZE_THRESHOLD + 1
Due_OneEarly(rows) == Len(rows) >= SUMMARIZE_THRESHOLD + 1

\* try_summarize: if len(logs) >= SUMMARIZE_THRESHOLD + 2
Due(rows) == Len(rows) >= SUMMARIZE_THRESHOLD + 2

\* main: await try_summarize(user): logs = await db.get_unsummarized_logs;
\* below the threshold nothing more happens; else run_historian_ai builds
\* date_str and the prompt from the batch
Summarize(u) ==
  /\ pc[u] = "summarize"
  /\ \E tie \in TieBreaks :
       LET rows  == UnsummarizedLogs(u, tie)
           batch == AllButLastTwo(rows)
       IN  /\ trace' =
                [trace EXCEPT
                   ![u].turn =
                     [TurnTrace EXCEPT
                        !.response = trace[u].turn.response,
                        !.base = [logs |-> chat_logs, sums |-> summaries]],
                   ![u].reoffered =
                     IF trace[u].failed_batch = {} THEN @
                     ELSE IF trace[u].failed_batch \subseteq Ids(rows)
                          THEN "yes" ELSE "no"]
           /\ IF Due(rows) /\ batch # <<>>
              THEN /\ logs' = [logs EXCEPT ![u] = batch]
                   /\ date_str' =
                        [date_str EXCEPT ![u] =
                           DateOf(chat_logs[batch[1]].timestamp)]
                   /\ pc' = [pc EXCEPT ![u] = "hist_llm"]
                   /\ user_input' = [user_input EXCEPT ![u] = ""]
                   /\ reply' = [reply EXCEPT ![u] = ""]
                   /\ directive' = [directive EXCEPT ![u] = NoMatch]
                   /\ UNCHANGED <<messages, evidence, recall_rows, summary>>
              ELSE /\ pc' = [pc EXCEPT ![u] = "idle"]
                   /\ ResetLocals(u)
  /\ UNCHANGED <<chat_logs, summaries, now, error, turns, done_ids, twice>>

\* summary = await fake_llm(prompt)
HistorianReason(u, out) ==
  /\ pc[u] = "hist_llm"
  /\ summary' = [summary EXCEPT ![u] = out]
  /\ pc' = [pc EXCEPT ![u] = IF HasNoEvent(out) THEN "hist_mark" ELSE "hist_save"]
  /\ UNCHANGED <<chat_logs, summaries, now, user_input, messages, reply,
                 directive, evidence, recall_rows, logs, date_str, error, turns,
                 trace, done_ids, twice>>

\* await db.save_summary(date_str, summary)
HistorianSave(u) ==
  /\ pc[u] = "hist_save"
  /\ summaries' = SaveSummary(summaries, date_str[u], summary[u])
  /\ pc' = [pc EXCEPT ![u] = "hist_mark"]
  /\ trace' = [trace EXCEPT
                 ![u].wrote = SaveSummary(@, date_str[u], summary[u])]
  /\ UNCHANGED <<chat_logs, now, locals, error, turns, done_ids, twice>>

\* await db.mark_summarized([log["id"] for log in logs]); try_summarize
\* returns and main reads the next input
HistorianMark(u) ==
  /\ pc[u] = "hist_mark"
  /\ chat_logs' = MarkSummarized(chat_logs, Ids(logs[u]))
  /\ done_ids' = done_ids \cup Ids(logs[u])
  /\ twice' = (twice \/ done_ids \cap Ids(logs[u]) # {})
  /\ trace' = [trace EXCEPT ![u].failed_batch = @ \ Ids(logs[u])]
  /\ pc' = [pc EXCEPT ![u] = "idle"]
  /\ ResetLocals(u)
  /\ UNCHANGED <<summaries, now, error, turns>>

\* the awaits on the reasoning step
ReasonLabels == {"llm1", "recall_llm", "llm2", "hist_llm"}

\* fake_llm raises at the await user u is suspended at; rows is table
\* chat_logs as the exception leaves it
ReasonFailsWith(u, rows) ==
  /\ pc[u] \in ReasonLabels
  /\ chat_logs' = rows
  /\ pc' = [pc EXCEPT ![u] = "crashed"]
  /\ error' = [error EXCEPT ![u] =
                 [kind |-> "ReasoningUnavailable",
                  at   |-> IF pc[u] = "hist_llm" THEN "try_summarize"
                           ELSE "think_and_reply"]]
  /\ trace' = [trace EXCEPT
                 ![u].failed = @ + 1,
                 ![u].failed_batch = IF pc[u] = "hist_llm" THEN Ids(logs[u]) ELSE @,
                 ![u].reoffered = IF pc[u] = "hist_llm" THEN "none" ELSE @,
                 ![u].turn.n_llm = IF pc[u] = "hist_llm" THEN @ ELSE @ + 1,
                 ![u].turn.n_reason = IF pc[u] \in {"llm1", "llm2"} THEN @ + 1 ELSE @,
                 ![u].turn.hist_ids = <<>>,
                 ![u].turn.ctx1 = <<>>]
  /\ ResetLocals(u)
  /\ UNCHANGED <<summaries, now, turns, done_ids, twice>>

\* fault variant: run_historian_ai marks its batch in a finally clause
ReasonFails_MarksBatch(u) ==
  ReasonFailsWith(u, IF pc[u] = "hist_llm"
                     THEN MarkSummarized(chat_logs, Ids(logs[u]))
                     ELSE chat_logs)

\* fault variant: think_and_reply records a fallback reply in an except clause
ReasonFails_RecordsFallback(u) ==
  ReasonFailsWith(u, IF pc[u] = "hist_llm" THEN chat_logs
                     ELSE AddChat(chat_logs, u, "assistant", "ok", now))

\* fake_llm raises: nothing catches it in think_and_reply, try_summarize or
\* main, no except or finally clause writes to a table, and
\* asyncio.run(main()) ends with the exception
ReasonFails(u) == ReasonFailsWith(u, chat_logs)

\* the program is started again on the same database file
Restart(u) ==
  /\ pc[u] = "crashed"
  /\ pc' = [pc EXCEPT ![u] = "idle"]
  /\ error' = [error EXCEPT ![u] = NoError]
  /\ trace' = [trace EXCEPT ![u].turn = TurnTrace]
  /\ ResetLocals(u)
  /\ UNCHANGED <<chat_logs, summaries, now, turns, done_ids, twice>>

Next ==
  \E u \in Users :
    \/ \E text \in UserInputs : Start(u, text)
    \/ History(u)
    \/ \E out \in LLMTexts : FirstReason(u, out)
    \/ Recall(u)
    \/ \E out \in InvestigatorTexts : RecallReason(u, out)
    \/ \E out \in LLMTexts : SecondReason(u, out)
    \/ Record(u)
    \/ Summarize(u)
    \/ \E out \in HistorianTexts : HistorianReason(u, out)
    \/ HistorianSave(u)
    \/ HistorianMark(u)
    \/ ReasonFails(u)
    \/ Restart(u)

Spec == Init /\ [][Next]_vars

\* ------------------------------------------------ two users, interleaved
\* think_and_reply and try_summarize take the user as a parameter; a caller
\* other than main may have a call for each of two users in progress, and the
\* event loop runs one of them from an await to its next await at a time.

\* the reasoning step's texts in think_and_reply and internal_memory_recall
\* in the two-user runs: a plain reply and a directive for a day with rows
ConcTexts == {"ok", "[RECALL|2026-02-26|cats]"}

\* rows each user has left uncompacted in the database of the earlier runs
PriorOpenConc == {0, SUMMARIZE_THRESHOLD}

\* the turns of the two users alternate, Guest first; rows one second apart
PriorRowsConc(n) ==
  [i \in 1..(2 * n) |->
     [user_id    |-> IF ((i + 1) \div 2) % 2 = 1 THEN "Guest" ELSE DEFAULT_USER,
      role       |-> IF i % 2 = 1 THEN "user" ELSE "assistant",
      content    |-> IF i % 2 = 1 THEN "hello" ELSE "ok",
      timestamp  |-> NowInit - 2 * n + i - 1,
      summarized |-> 0]]

InitConc ==
  \E n \in PriorOpenConc :
    /\ chat_logs = PriorRowsConc(n)
    /\ summaries = {}
    /\ now = NowInit
    /\ pc = [u \in Users |-> "idle"]
    /\ user_input = [u \in Users |-> ""]
    /\ messages = [u \in Users |-> <<>>]
    /\ reply = [u \in Users |-> ""]
    /\ directive = [u \in Users |-> NoMatch]
    /\ evidence = [u \in Users |-> ""]
    /\ recall_rows = [u \in Users |-> <<>>]
    /\ logs = [u \in Users |-> <<>>]
    /\ date_str = [u \in Users |-> NoDate]
    /\ summary = [u \in Users |-> ""]
    /\ error = [u \in Users |-> NoError]
    /\ turns = 0
    /\ trace = [u \in Users |-> InitTrace(n \div 2)]
    /\ done_ids = {}
    /\ twice = FALSE

NextConc ==
  \E u \in Users :
    \/ \E text \in UserInputs : StartTurn(u, text)
    \/ History(u)
    \/ \E out \in ConcTexts : FirstReason(u, out)
    \/ Recall(u)
    \/ \E out \in ConcTexts : RecallReason(u, out)
    \/ \E out \in ConcTexts : SecondReason(u, out)
    \/ Record(u)
    \/ Summarize(u)
    \/ \E out \in HistorianTexts : HistorianReason(u, out)
    \/ HistorianSave(u)
    \/ HistorianMark(u)
    \/ ReasonFails(u)
    \/ Restart(u)

SpecConc == InitConc /\ [][NextConc]_vars

\* --------------------------------------------------------------- properties

\* the rows of user u, in id order
UserRows(u) == SelectSeq(chat_logs, LAMBDA r : r.user_id = u)

\* the ids of the rows of user u that are not compacted
Uncompacted(u) ==
  {i \in 1..Len(chat_logs) :
     chat_logs[i].user_id = u /\ chat_logs[i].summarized = 0}

LastRow(u) == UserRows(u)[Len(UserRows(u))]

\* compaction runs that completed have consumed n rows
Compacted(n) == Cardinality(done_ids) = n

\* C1: for every user whose calls of think_and_reply have all returned (N of
\* them), the log holds exactly 2N rows of that user, a "user" row followed
\* by an "assistant" row per call, with timestamps that never decrease in
\* insertion order; compaction runs, running or completed, leave this as it is
C1_TwoRowsPerReturnedCall ==
  \A u \in Users :
    trace[u].started = trace[u].returned =>
      LET rows == UserRows(u)
      IN  /\ Len(rows) = 2 * trace[u].returned
          /\ \A k \in 1..Len(rows) :
               rows[k].role = IF k % 2 = 1 THEN "user" ELSE "assistant"
          /\ \A k \in 1..(Len(rows) - 1) :
               rows[k].timestamp <= rows[k + 1].timestamp

\* C1 witness: two calls returned in this behaviour, on top of 30 earlier
\* ones, and a compaction run completed in between
C1_Witness ==
  /\ pc[DEFAULT_USER] = "idle"
  /\ turns = 2
  /\ trace[DEFAULT_USER].started = trace[DEFAULT_USER].returned
  /\ trace[DEFAULT_USER].returned = SUMMARIZE_THRESHOLD + 2
  /\ Len(UserRows(DEFAULT_USER)) = 2 * SUMMARIZE_THRESHOLD + 4
  /\ Compacted(2 * SUMMARIZE_THRESHOLD)

\* C2: in every state, a user with at least 2 rows has at least 2 rows that
\* are not compacted
C2_SoftLandingFloor ==
  \A u \in Users :
    Len(UserRows(u)) >= 2 => Cardinality(Uncompacted(u)) >= 2

\* C2 witness: a compaction run has just marked its batch and exactly 2 rows
\* of the user are left uncompacted
C2_Witness ==
  /\ pc[DEFAULT_USER] = "idle"
  /\ turns = 1
  /\ Compacted(SUMMARIZE_THRESHOLD)
  /\ Len(UserRows(DEFAULT_USER)) = SUMMARIZE_THRESHOLD + 2
  /\ Cardinality(Uncompacted(DEFAULT_USER)) = 2

\* the awaits of run_historian_ai: the batch is in the Historian's hands
HistorianLabels == {"hist_llm", "hist_save", "hist_mark"}

\* C3: the batch a compaction run hands to the Historian holds no row whose
\* flag is set and no row of the batch of a run that completed, and no row
\* was in the batch of two runs that completed
C3_NoCompactedRowInBatch ==
  /\ \A u \in Users :
       pc[u] \in HistorianLabels =>
         \A i \in Ids(logs[u]) :
           chat_logs[i].summarized = 0 /\ i \notin done_ids
  /\ ~twice

\* C3 witness: a run is about to mark its batch while rows compacted by an
\* earlier run are in the table
C3_Witness ==
  /\ pc[DEFAULT_USER] = "hist_mark"
  /\ Compacted(SUMMARIZE_THRESHOLD)
  /\ Cardinality(Ids(logs[DEFAULT_USER])) = SUMMARIZE_THRESHOLD
  /\ Ids(logs[DEFAULT_USER]) \cap done_ids = {}

\* C4: when the reasoning step fails in a compaction run, both tables are as
\* they were when the run read its rows, no row of the batch is marked, and
\* the next get_unsummarized_logs of that user returns every row of the batch
C4_FailedRunChangesNothing ==
  \A u \in Users :
    /\ (pc[u] = "crashed" /\ error[u].at = "try_summarize") =>
         /\ chat_logs = trace[u].turn.base.logs
         /\ summaries = trace[u].turn.base.sums
         /\ trace[u].failed_batch # {}
         /\ \A i \in trace[u].failed_batch : chat_logs[i].summarized = 0
    /\ trace[u].reoffered # "no"

\* C4 witness: after a failed run the next compaction check has read the
\* rows of the failed batch again
C4_Witness ==
  /\ trace[DEFAULT_USER].reoffered = "yes"
  /\ Cardinality(trace[DEFAULT_USER].failed_batch) = SUMMARIZE_THRESHOLD

\* C5 (the claim): a failure inside try_summarize does not end the main
\* loop: the loop is never left by an exception that try_summarize raised
C5_CompactionFailureNotFatal ==
  \A u \in Users : ~(pc[u] = "crashed" /\ error[u].at = "try_summarize")

\* C6 (the claim): in one call of think_and_reply the Investigator is invoked
\* at most once and think_and_reply invokes the reasoning step at most twice,
\* and the call reaches add_chat(assistant) whenever the reasoning step
\* answers: no other exception ends it
C6_SingleHopReachesRecord ==
  \A u \in Users :
    /\ trace[u].turn.n_recall <= 1
    /\ trace[u].turn.n_reason <= 2
    /\ (pc[u] = "crashed" /\ error[u].at = "think_and_reply") =>
         error[u].kind = "ReasoningUnavailable"

\* the date and the query of "[RECALL|2026-02-26|cats]"
CatsArg ==
  << <<"2", "0", "2", "6", "-", "0", "2", "-", "2", "6">>,
     <<"c", "a", "t", "s">> >>

\* the replies whose directive names a calendar date
WellFormed == {"[RECALL|2026-02-26|cats]", "[RECALL|2026-02-28|cats]"}

\* C7: when the first output carries a well-formed directive, the
\* Investigator is invoked once, with the date and the query of the
\* directive; the second reasoning call gets the first context extended by
\* the first output (assistant) and the recall result (system); the row
\* stored and the value returned are the second output
C7_DirectiveTurn ==
  \A u \in Users :
    LET t == trace[u].turn
    IN  t.out1 \in WellFormed =>
          /\ pc[u] \in {"recall_llm", "llm2", "record", "summarize"} =>
               /\ t.n_recall = 1
               /\ t.recall_arg[2] = <<"c", "a", "t", "s">>
               /\ t.out1 = "[RECALL|2026-02-26|cats]" => t.recall_arg = CatsArg
          /\ pc[u] = "llm2" =>
               /\ t.n_reason = 1
               /\ evidence[u] # ""
               /\ messages[u] =
                    t.ctx1 \o <<Msg("assistant", "plain", <<>>, t.out1),
                                Msg("system", "report", <<>>, evidence[u])>>
               /\ t.ctx1[Len(t.ctx1)] =
                    Msg("user", "plain", <<>>, user_input[u])
          /\ pc[u] = "record" => (t.n_reason = 2 /\ reply[u] = t.out2)
          /\ pc[u] = "summarize" =>
               /\ t.n_reason = 2
               /\ LastRow(u).role = "assistant"
               /\ LastRow(u).content = t.out2
               /\ t.response = t.out2

\* C7 witness: a turn whose first output was the directive has stored and
\* returned the second output
C7_Witness ==
  LET t == trace[DEFAULT_USER].turn
  IN  /\ pc[DEFAULT_USER] = "summarize"
      /\ t.out1 = "[RECALL|2026-02-26|cats]"
      /\ t.recall_arg = CatsArg
      /\ t.out2 = "ok"
      /\ LastRow(DEFAULT_USER).content = "ok"

\* the replies that come near the directive without having its shape
Malformed ==
  { "[RECALL|26-02-2026|cats]", "[RECALL 2026-02-26|cats]",
    "[recall|2026-02-26|cats]", "RECALL|2026-02-26|cats" }

\* C8: when the first output has no text of the directive's shape, no recall
\* is made, the reasoning step is invoked once, and the first output is the
\* row stored and the value returned
C8_MalformedIsOrdinaryText ==
  \A u \in Users :
    LET t == trace[u].turn
    IN  t.out1 \in Malformed \cup {"ok", "[NO_EVENT]"} =>
          /\ pc[u] \in {"record", "summarize"}
          /\ t.n_recall = 0
          /\ t.n_reason = 1
          /\ t.n_llm = 1
          /\ reply[u] = t.out1
          /\ pc[u] = "summarize" =>
               /\ LastRow(u).role = "assistant"
               /\ LastRow(u).content = t.out1
               /\ t.response = t.out1

\* C8 witness: the reply with the date in the wrong format is stored as it is
C8_Witness ==
  /\ pc[DEFAULT_USER] = "summarize"
  /\ trace[DEFAULT_USER].turn.out1 = "[RECALL|26-02-2026|cats]"
  /\ LastRow(DEFAULT_USER).content = "[RECALL|26-02-2026|cats]"
  /\ trace[DEFAULT_USER].turn.n_recall = 0

\* C9 (the claim): a directive-shaped text whose date is no calendar date is
\* no error: think_and_reply is not ended by the date's ValueError
C9_BadDateIsNotAnError ==
  \A u \in Users : ~(pc[u] = "crashed" /\ error[u].kind = "ValueError")

\* C10: when the reasoning step fails inside think_and_reply, at the first or
\* the second invocation or inside the recall, table chat_logs is what it was
\* before the call plus the one "user" row, and table summaries is unchanged
C10_FailedTurnLeavesUserRowOnly ==
  \A u \in Users :
    (/\ pc[u] = "crashed"
     /\ error[u].at = "think_and_reply"
     /\ error[u].kind = "ReasoningUnavailable") =>
      LET before == trace[u].turn.base.logs
          n      == Len(before)
      IN  /\ Len(chat_logs) = n + 1
          /\ SubSeq(chat_logs, 1, n) = before
          /\ chat_logs[n + 1].user_id = u
          /\ chat_logs[n + 1].role = "user"
          /\ chat_logs[n + 1].content \in UserInputs
          /\ chat_logs[n + 1].summarized = 0
          /\ summaries = trace[u].turn.base.sums

\* C10 witness: the second invocation failed, after a recall that read rows
C10_Witness ==
  /\ pc[DEFAULT_USER] = "crashed"
  /\ error[DEFAULT_USER].kind = "ReasoningUnavailable"
  /\ trace[DEFAULT_USER].turn.n_recall = 1
  /\ trace[DEFAULT_USER].turn.n_reason = 2
  /\ trace[DEFAULT_USER].turn.n_llm = 3
  /\ Len(chat_logs) = Len(trace[DEFAULT_USER].turn.base.logs) + 1
\* the calendar day a directive of LLMTexts names
DirectiveDay(t) ==
  CASE t = "[RECALL|2026-02-26|cats]" -> [y |-> 2026, m |-> 2, d |-> 26]
    [] t = "[RECALL|2026-02-28|cats]" -> [y |-> 2026, m |-> 2, d |-> 28]
    [] OTHER -> NoDate

\* the ids of the rows, of every user, whose timestamp is on calendar day d
RowsOfDay(d) ==
  {i \in 1..Len(chat_logs) : DateOf(chat_logs[i].timestamp) = d}

\* the await of the Investigator's reasoning call, and the one after it
RecallLabels == {"recall_llm", "llm2"}

\* C11: the rows internal_memory_recall puts into its prompt are exactly the
\* rows of chat_logs, of all users, whose timestamp t is on the day d of the
\* directive, dayStart(d) <= t < dayStart(d) + 86400, each once and oldest
\* first; rows of the day before and of the day after are not among them, and
\* they are determined by table chat_logs alone
C11_RecallReadsTheDay ==
  \A u \in Users :
    (pc[u] \in RecallLabels /\ trace[u].turn.out1 \in WellFormed) =>
      LET rows == recall_rows[u]
          d    == DirectiveDay(trace[u].turn.out1)
      IN  /\ Ids(rows) = RowsOfDay(d)
          /\ Len(rows) = Cardinality(RowsOfDay(d))
          /\ \A i \in Ids(rows) :
               /\ DayStart(d.y, d.m, d.d) <= chat_logs[i].timestamp
               /\ chat_logs[i].timestamp < DayStart(d.y, d.m, d.d) + 86400
          /\ \A k \in 1..(Len(rows) - 1) :
               chat_logs[rows[k]].timestamp <= chat_logs[rows[k + 1]].timestamp
          /\ d = [y |-> 2026, m |-> 2, d |-> 26] =>
               \A i \in 1..Len(chat_logs) :
                 i \in Ids(rows) <=>
                   (1772064000 <= chat_logs[i].timestamp
                      /\ chat_logs[i].timestamp < 1772150400)

\* C11 witness: a recall of 2026-02-26 has read the 30 rows of that day while
\* the table also holds rows of the day before, of two users, and a row of the
\* first second of the day after
C11_Witness ==
  /\ pc[DEFAULT_USER] = "recall_llm"
  /\ trace[DEFAULT_USER].turn.out1 = "[RECALL|2026-02-26|cats]"
  /\ Len(recall_rows[DEFAULT_USER]) = SUMMARIZE_THRESHOLD
  /\ RowsOfDay([y |-> 2026, m |-> 2, d |-> 25]) # {}
  /\ RowsOfDay([y |-> 2026, m |-> 2, d |-> 27]) # {}
  /\ \E i \in 1..Len(chat_logs) : chat_logs[i].timestamp = 1772150400

\* C12: a recall of a day without rows gives the fixed text as its result,
\* ends the turn with no exception and makes no reasoning call of its own;
\* a recall of a day with rows makes exactly one reasoning call
C12_EmptyDayGivesSentinel ==
  \A u \in Users :
    LET t == trace[u].turn
        D == RowsOfDay(DirectiveDay(t.out1))
    IN  t.out1 \in WellFormed =>
          /\ pc[u] = "recall_llm" => (D # {} /\ t.n_llm = 1)
          /\ pc[u] = "llm2" =>
               IF D = {}
               THEN /\ evidence[u] = NO_RECORD
                    /\ t.n_llm = 1
                    /\ messages[u][Len(messages[u])] =
                         Msg("system", "report", <<>>, NO_RECORD)
               ELSE /\ evidence[u] \in InvestigatorTexts
                    /\ t.n_llm = 2
          /\ (pc[u] = "crashed" /\ t.n_recall = 1 /\ D = {}) =>
               (t.n_reason = 2 /\ error[u].kind = "ReasoningUnavailable")
          /\ pc[u] \in {"record", "summarize"} =>
               t.n_llm = IF D = {} THEN 2 ELSE 3

\* C12 witness: the recall of 2026-02-28, a day without rows, has given the
\* fixed text and the second reasoning call is next
C12_Witness ==
  /\ pc[DEFAULT_USER] = "llm2"
  /\ trace[DEFAULT_USER].turn.out1 = "[RECALL|2026-02-28|cats]"
  /\ evidence[DEFAULT_USER] = NO_RECORD
  /\ trace[DEFAULT_USER].turn.n_llm = 1
  /\ Len(chat_logs) > SUMMARIZE_THRESHOLD

\* C13 (the claim): a step of a call made for user a leaves unchanged, for
\* every other user b, the rows of b with their flags and every row of table
\* summaries that a compaction run of b's rows wrote
C13_NoCrossUserState ==
  [][\A a \in Users :
       pc'[a] # pc[a] =>
         \A b \in Users \ {a} :
           /\ UserRows(b)' = UserRows(b)
           /\ \A s \in trace[b].wrote \cap summaries : s \in summaries']_vars

\* the calendar date of the earliest timestamp among the rows ids
EarliestDate(ids) ==
  LET ts == {chat_logs[i].timestamp : i \in ids}
  IN  DateOf(CHOOSE t \in ts : \A x \in ts : t <= x)

\* table summaries has at most one row per date
OnePerDate(table) ==
  \A s1 \in table, s2 \in table : s1.date = s2.date => s1 = s2

\* C14: table summaries never has two rows for one date; it changes only in
\* the save_summary step of a compaction run, once per run, and after that
\* step the row for the date of the earliest row of the batch is the run's
\* output alone, while the rows of all other dates are as before
C14_OneSummaryPerDate ==
  [][/\ OnePerDate(summaries) /\ OnePerDate(summaries')
     /\ summaries' # summaries =>
          \E u \in Users : pc[u] = "hist_save" /\ pc'[u] = "hist_mark"
     /\ \A u \in Users :
          (pc[u] = "hist_save" /\ pc'[u] = "hist_mark") =>
            LET d == EarliestDate(Ids(logs[u]))
            IN  /\ {s \in summaries' : s.date = d} =
                     {[date |-> d, content |-> summary[u]]}
                /\ {s \in summaries' : s.date # d} =
                     {s \in summaries : s.date # d}
                /\ summary[u] \in HistorianTexts /\ ~HasNoEvent(summary[u])
     /\ \A u \in Users :
          (pc[u] = "hist_mark" /\ pc'[u] # "hist_mark") => summaries' = summaries
    ]_vars

\* C14 witness: a run has stored its output for 2026-02-26 in place of the
\* text "ok" that an earlier run had stored for that date
C14_Witness ==
  /\ pc[DEFAULT_USER] = "hist_mark"
  /\ trace[DEFAULT_USER].turn.base.sums =
       {[date |-> [y |-> 2026, m |-> 2, d |-> 26], content |-> "ok"]}
  /\ summaries =
       {[date |-> [y |-> 2026, m |-> 2, d |-> 26],
         content |-> "[RECALL|2026-02-26|cats]"]}

\* C15: with U uncompacted rows of the user, try_summarize returns at once
\* and leaves both tables alone when U < THRESHOLD + 2, and starts a run when
\* U >= THRESHOLD + 2; the run, when it completes, marks U - 2 of these rows,
\* none of them newer by timestamp than the 2 rows it leaves, which are then
\* the only uncompacted rows of the user, and changes no other row
C15_ThresholdAndBatch ==
  [][\A u \in Users :
       LET U == Uncompacted(u)
           V == Uncompacted(u)'
       IN  /\ (pc[u] = "summarize" /\ pc'[u] # "summarize") =>
                /\ stores' = stores
                /\ pc'[u] = IF Cardinality(U) < SUMMARIZE_THRESHOLD + 2
                            THEN "idle" ELSE "hist_llm"
                /\ pc'[u] = "hist_llm" =>
                     Cardinality(Ids(logs'[u])) = Cardinality(U) - 2
           /\ (pc[u] = "hist_mark" /\ pc'[u] = "idle") =>
                /\ Cardinality(U) >= SUMMARIZE_THRESHOLD + 2
                /\ V \subseteq U
                /\ Cardinality(V) = 2
                /\ Cardinality(U \ V) = Cardinality(U) - 2
                /\ \A i \in U \ V, j \in V :
                     chat_logs[i].timestamp <= chat_logs[j].timestamp
                /\ Cardinality(U) = 32 => Cardinality(U \ V) = 30
                /\ chat_logs' = MarkSummarized(chat_logs, U \ V)
    ]_vars

\* C15 witness: a run over 33 uncompacted rows (a failed turn had left its
\* "user" row) has completed: 31 rows are marked and 2 are left
C15_Witness ==
  /\ pc[DEFAULT_USER] = "idle"
  /\ turns = 2
  /\ Cardinality(done_ids) = SUMMARIZE_THRESHOLD + 1
  /\ Cardinality(Uncompacted(DEFAULT_USER)) = 2
  /\ Len(UserRows(DEFAULT_USER)) = SUMMARIZE_THRESHOLD + 3

\* the summaries of HistorianTexts that contain the no-event sentinel
NoEventTexts == {"[NO_EVENT]"}

\* C16: a run whose reasoning output contains "[NO_EVENT]" goes on to mark
\* its batch with table summaries as it was when the run began, the row for
\* the batch's date included; a run with any other output has its summary in
\* the table while every row of the batch is still unmarked; either way the
\* run then marks every row of its batch, and the marked rows are not among
\* the user's uncompacted rows afterwards
C16_NoEventStillConsumes ==
  [][\A u \in Users :
       /\ (pc[u] = "hist_llm" /\ pc'[u] \in {"hist_save", "hist_mark"}) =>
            /\ pc'[u] = IF summary'[u] \in NoEventTexts
                        THEN "hist_mark" ELSE "hist_save"
            /\ stores' = stores
       /\ (pc[u] = "hist_save" /\ pc'[u] # "hist_save") =>
            /\ pc'[u] = "hist_mark"
            /\ summary[u] \notin NoEventTexts
            /\ [date |-> EarliestDate(Ids(logs[u])), content |-> summary[u]]
                 \in summaries'
            /\ \A i \in Ids(logs[u]) : chat_logs'[i].summarized = 0
       /\ (pc[u] = "hist_mark" /\ pc'[u] # "hist_mark") =>
            /\ pc'[u] = "idle"
            /\ \A i \in Ids(logs[u]) : chat_logs'[i].summarized = 1
            /\ Ids(logs[u]) \cap Uncompacted(u)' = {}
            /\ Ids(logs[u]) \subseteq done_ids'
            /\ summary[u] \in NoEventTexts =>
                 summaries' = trace[u].turn.base.sums
       /\ \A i \in done_ids : chat_logs'[i].summarized = 1
    ]_vars

\* C16 witness: the output of a run was "[NO_EVENT]"; the summary "ok" that
\* the table held for the batch's date is still there and the 30 rows of the
\* batch are about to be marked
C16_Witness ==
  /\ pc[DEFAULT_USER] = "hist_mark"
  /\ summary[DEFAULT_USER] = "[NO_EVENT]"
  /\ Cardinality(Ids(logs[DEFAULT_USER])) = SUMMARIZE_THRESHOLD
  /\ summaries =
       {[date |-> EarliestDate(Ids(logs[DEFAULT_USER])), content |-> "ok"]}
  /\ \A i \in Ids(logs[DEFAULT_USER]) : chat_logs[i].summarized = 0

\* the ids of the two rows of user u inserted last (of all, with fewer rows)
NewestTwo(u) ==
  LET ids == {i \in 1..Len(chat_logs) : chat_logs[i].user_id = u}
  IN  {i \in ids : Cardinality({j \in ids : j > i}) < 2}

LocalsOf(u) ==
  <<pc[u], user_input[u], messages[u], reply[u], directive[u], evidence[u],
    recall_rows[u], logs[u], date_str[u], summary[u], error[u]>>

\* the roles of the rows of user u, in insertion order
RolesOf(u) == [k \in 1..Len(UserRows(u)) |-> UserRows(u)[k].role]

\* the flags of the rows of user u, in insertion order
FlagsOf(u) == [k \in 1..Len(UserRows(u)) |-> UserRows(u)[k].summarized]

\* C18: with calls for two users interleaved at their awaits, a step of one
\* user's call changes neither the rows and flags nor the locals of the other
\* user, and does to its own user's rows what it does when that user runs
\* alone: add_chat appends one row of the step's role, a batch holds all but
\* 2 of the user's own uncompacted rows, mark_summarized sets the flags of the
\* batch and leaves 2 uncompacted, every other step changes no row; and both
\* users keep at least 2 uncompacted rows once they have 2 rows
C18_UsersDoNotInterfere ==
  [][\A a \in Users :
       LocalsOf(a)' # LocalsOf(a) =>
         /\ \A b \in Users \ {a} :
              /\ UserRows(b)' = UserRows(b)
              /\ LocalsOf(b)' = LocalsOf(b)
              /\ Len(UserRows(b)) >= 2 => Cardinality(Uncompacted(b)') >= 2
         /\ Len(UserRows(a)') >= 2 => Cardinality(Uncompacted(a)') >= 2
         /\ IF pc[a] = "idle" /\ pc'[a] = "history"
            THEN /\ RolesOf(a)' = Append(RolesOf(a), "user")
                 /\ FlagsOf(a)' = Append(FlagsOf(a), 0)
            ELSE IF pc[a] = "record" /\ pc'[a] = "summarize"
            THEN /\ RolesOf(a)' = Append(RolesOf(a), "assistant")
                 /\ FlagsOf(a)' = Append(FlagsOf(a), 0)
            ELSE IF pc[a] = "hist_mark" /\ pc'[a] = "idle"
            THEN /\ RolesOf(a)' = RolesOf(a)
                 /\ Ids(logs[a]) \subseteq Uncompacted(a)
                 /\ Uncompacted(a)' = Uncompacted(a) \ Ids(logs[a])
                 /\ Cardinality(Uncompacted(a)') = 2
            ELSE /\ UserRows(a)' = UserRows(a)
                 /\ pc'[a] = "hist_llm" =>
                      /\ Ids(logs'[a]) \subseteq Uncompacted(a)
                      /\ Cardinality(Uncompacted(a) \ Ids(logs'[a])) = 2
    ]_vars

\* C18 witness: compaction runs of the two users are in progress at the same
\* time, each with a batch of 30 rows of its own user
C18_Witness ==
  /\ \A u \in Users :
       /\ pc[u] = "hist_mark"
       /\ Cardinality(Ids(logs[u])) = SUMMARIZE_THRESHOLD
       /\ \A i \in Ids(logs[u]) : chat_logs[i].user_id = u
  /\ summary[DEFAULT_USER] # summary["Guest"]

\* no call of think_and_reply or try_summarize for user u has failed, in this
\* behaviour or before it
NoFailure(u) ==
  trace[u].failed = 0 /\ trace[u].started = trace[u].returned

\* C19: when try_summarize returns, with or without a run, the user has at
\* most THRESHOLD + 1 uncompacted rows; for a user whose calls never failed
\* it is at most THRESHOLD rows, and every batch has exactly THRESHOLD rows
C19_UncompactedBounded ==
  [][\A u \in Users :
       /\ (pc[u] \in {"summarize", "hist_mark"} /\ pc'[u] = "idle") =>
            /\ Cardinality(Uncompacted(u)') <= SUMMARIZE_THRESHOLD + 1
            /\ NoFailure(u) =>
                 Cardinality(Uncompacted(u)') <= SUMMARIZE_THRESHOLD
       /\ (pc[u] = "summarize" /\ pc'[u] = "hist_llm" /\ NoFailure(u)) =>
            /\ Len(logs'[u]) = SUMMARIZE_THRESHOLD
            /\ Cardinality(Ids(logs'[u])) = SUMMARIZE_THRESHOLD
    ]_vars

\* C19 witness: two turns with no failure; the check after the first ran a
\* batch of 30 rows and left 2, the check after the second found 4 rows and
\* returned
C19_Witness ==
  /\ pc[DEFAULT_USER] = "idle"
  /\ NoFailure(DEFAULT_USER)
  /\ turns = 2
  /\ Cardinality(done_ids) = SUMMARIZE_THRESHOLD
  /\ Cardinality(Uncompacted(DEFAULT_USER)) = 4

\* the id of the row of user u inserted last
NewestRow(u) ==
  CHOOSE i \in 1..Len(chat_logs) :
    /\ chat_logs[i].user_id = u
    /\ \A j \in (i + 1)..Len(chat_logs) : chat_logs[j].user_id # u

\* C20 (the claim): the context of the first reasoning call is the rendered
\* history, at most limit entries with timestamps oldest first, followed by
\* the untagged user message; the last history entry is the rendering of the
\* row that this call has just appended for the same message
C20_NewMessageTwice ==
  \A u \in Users :
    pc[u] = "llm1" =>
      LET h   == trace[u].turn.hist_ids
          ctx == messages[u]
      IN  /\ Len(ctx) = Len(h) + 1
          /\ Len(ctx) <= HISTORY_LIMIT + 1
          /\ ctx[Len(ctx)] = Msg("user", "plain", <<>>, user_input[u])
          /\ \A k \in 1..(Len(h) - 1) :
               chat_logs[h[k]].timestamp <= chat_logs[h[k + 1]].timestamp
          /\ Len(h) >= 1
          /\ h[Len(h)] = NewestRow(u)
          /\ ctx[Len(h)].kind = "tagged"
          /\ ctx[Len(h)].role = "user"
          /\ ctx[Len(h)].text = user_input[u]
====
